---- MODULE Spec2Model ----
(***************************************************************************)
(* The five linked lists of too-many-lists: first.rs (ExclusiveStack),      *)
(* second.rs (IterableStack), third.rs (PersistentList), fourth.rs         *)
(* (SharedDeque) and fifth.rs (ExclusiveQueue).                            *)
(*                                                                         *)
(* Every list is modelled on an explicit heap: a partial function from     *)
(* addresses to nodes.  Dropping a Box (or the last Rc) gives the address  *)
(* back.  fifth.rs keeps a raw pointer, whose stale value could meet a     *)
(* reused address, so there Box::new takes any free address; first.rs to   *)
(* fourth.rs are safe Rust, which cannot observe an address, and there     *)
(* Box::new / Rc::new take the lowest free one.  A link is Null (None,     *)
(* Link::Empty, ptr::null_mut()) or an address.  An Option<T> value is the *)
(* empty tuple (None) or a one-element tuple (Some(v)).                    *)
(*                                                                         *)
(* The lists share no code and every test of the repository builds exactly *)
(* one list, so a behaviour exercises one list: `variant` says which.      *)
(***************************************************************************)
EXTENDS Integers, Sequences, FiniteSets, Bags, TLC

\* Bounds of the model.
MaxLen == 3          \* nodes a heap can hold (pushes stop at a full heap)
MaxVal == 2          \* element values are 1..MaxVal
MaxLists == 3        \* third.rs list handles alive at once
MaxViews == 2        \* fourth.rs Ref<T> out at once

Addr   == 1..MaxLen
Values == 1..MaxVal
\* third.rs never reads, compares or copies an element (impl<T> asks nothing of
\* T), so two elements are enough to tell a node from every other.
ThirdElems == {1, 2}
Null   == 0
None   == << >>
Some(v) == << v >>

VARIABLES
    variant,      \* which of the five lists this run exercises
    last,         \* name of the last operation called
    ret,          \* the Option it returned (None for operations returning ())
    ref,          \* reference model: the sequence of elements, front first
    exp,          \* reference model: the Option the last operation should return
    out,          \* the values the caller collected from the live iterator
    snap,         \* reference model: the elements when into_iter took the list
    iter_prev,    \* what the last exhausted Iter yielded, None once the list changed
    first_heap,   \* first.rs: Box<Node> storage, addr -> [val, next]
    first_head,   \* first.rs: List.head
    second_heap,  \* second.rs: Box<Node<T>> storage, addr -> [val, next]
    second_head,  \* second.rs: List.head
    second_borrow,\* second.rs: what holds the list: "none", "iter" (a shared
                  \* borrow), "iter_mut" (the exclusive borrow), "into_iter" (moved)
    iter_next,    \* second.rs: Iter.next
    itermut_next, \* second.rs: IterMut.next
    itermut_refs, \* second.rs: the nodes whose &mut val IterMut has handed out
    third_heap,   \* third.rs: Rc<Node<T>> storage, addr -> [val, next]
    third_lists,  \* third.rs: the Lists the caller holds, a bag of their heads
    third_rc,     \* third.rs: the strong count in each node's Rc box, addr -> count
    fourth_heap,  \* fourth.rs: Rc<RefCell<Node<T>>> storage, addr -> [val, next, prev]
    fourth_head,  \* fourth.rs: List.head
    fourth_tail,  \* fourth.rs: List.tail
    fourth_panic, \* fourth.rs: "none", or the panic that ended the run
    fourth_views, \* fourth.rs: the Ref<T> that are out, a bag of the nodes they borrow
    fifth_heap,   \* fifth.rs: Box<Node<T>> storage, addr -> [val, next]
    fifth_head,   \* fifth.rs: List.head
    fifth_tail,   \* fifth.rs: List.tail, the raw *mut Node<T>
    fifth_ub,     \* fifth.rs: a freed node was written through List.tail
    teardown,     \* the List under test: "live", "dropping" (in its drop) or "done"
    drop_cur,     \* first.rs, second.rs: cur_link of Drop::drop
    drop_max      \* the deepest nesting of node destructors a drop has reached

firstVars == << first_heap, first_head >>
secondVars == << second_heap, second_head, second_borrow, iter_next,
                itermut_next, itermut_refs >>
thirdVars == << third_heap, third_lists, third_rc >>
fourthVars == << fourth_heap, fourth_head, fourth_tail, fourth_panic,
                fourth_views >>
fifthVars == << fifth_heap, fifth_head, fifth_tail, fifth_ub >>
refVars == << ref, exp, out, snap, iter_prev >>
dropVars == << teardown, drop_cur, drop_max >>
vars == << variant, last, ret, refVars, firstVars, secondVars, thirdVars,
          fourthVars, fifthVars, dropVars >>

\* Where Box::new / Rc::new may put a node in heap h: nowhere once h is full.
AnyFresh(h) == Addr \ DOMAIN h
Fresh(h) == {a \in AnyFresh(h) : \A b \in AnyFresh(h) : a <= b}

\* The heap h without the node at a (the Box at a is dropped).
Free(h, a) == [x \in DOMAIN h \ {a} |-> h[x]]

\* The values of the chain that starts at link l in heap h, following next
\* links for at most n nodes.  A link to a node that is not in the heap (freed)
\* reads as the marker -1.
RECURSIVE Chain(_, _, _)
Chain(h, l, n) ==
    IF l = Null \/ n = 0 THEN << >>
    ELSE IF l \notin DOMAIN h THEN << -1 >>
    ELSE << h[l].val >> \o Chain(h, h[l].next, n - 1)

\* The addresses of that chain.
RECURSIVE ChainAddrs(_, _, _)
ChainAddrs(h, l, n) ==
    IF l = Null \/ n = 0 \/ l \notin DOMAIN h THEN << >>
    ELSE << l >> \o ChainAddrs(h, h[l].next, n - 1)

\* The values of the chain that starts at link l, following prev links.
RECURSIVE ChainBack(_, _, _)
ChainBack(h, l, n) ==
    IF l = Null \/ n = 0 THEN << >>
    ELSE IF l \notin DOMAIN h THEN << -1 >>
    ELSE << h[l].val >> \o ChainBack(h, h[l].prev, n - 1)

Range(s) == {s[i] : i \in 1..Len(s)}

Max(a, b) == IF a >= b THEN a ELSE b

\* Drop of the Box<Node> at link l in heap h, by the drop glue of Node: the
\* node's next is dropped inside the node's drop, then the Box is given back.
RECURSIVE BoxDrop(_, _)
BoxDrop(h, l) ==
    IF l = Null \/ l \notin DOMAIN h THEN h
    ELSE BoxDrop(Free(h, l), h[l].next)

\* The node destructors that this drop nests: the node's own and, inside it,
\* those of the drop of its next.
RECURSIVE BoxDropDepth(_, _)
BoxDropDepth(h, l) ==
    IF l = Null \/ l \notin DOMAIN h THEN 0
    ELSE 1 + BoxDropDepth(Free(h, l), h[l].next)

Reverse(s) == [i \in 1..Len(s) |-> s[Len(s) + 1 - i]]

(***************************************************************************)
(* first.rs: ExclusiveStack                                                *)
(***************************************************************************)

\* List::new
FirstNew == first_heap = << >> /\ first_head = Null

\* List::push that leaves the new node's next Empty instead of moving the old
\* head into it: the old chain is lost.
FirstPushDropsRest(elem) ==
    \E a \in Fresh(first_heap) :
        /\ first_heap' = first_heap @@ (a :> [val |-> elem, next |-> Null])
        /\ first_head' = a
        /\ ret' = None

\* List::push: the new node takes the old head as its next, head owns the node.
FirstPush(elem) ==
    \E a \in Fresh(first_heap) :
        /\ first_heap' = first_heap @@ (a :> [val |-> elem, next |-> first_head])
        /\ first_head' = a
        /\ ret' = None

\* List::pop: Empty gives None; otherwise head becomes node.next, the Box is
\* dropped and Some(node.val) is returned.
FirstPop ==
    IF first_head = Null
    THEN /\ ret' = None
         /\ UNCHANGED firstVars
    ELSE /\ first_head' = first_heap[first_head].next
         /\ first_heap' = Free(first_heap, first_head)
         /\ ret' = Some(first_heap[first_head].val)

\* Drop::drop of List, one step of it: cur_link takes the head; each turn of
\* the while let moves the node's next into cur_link and drops the node, its
\* next already Empty; the loop is left at Empty.
FirstDrop ==
    IF teardown = "live"
    THEN /\ teardown' = "dropping"
         /\ drop_cur' = first_head
         /\ first_head' = Null
         /\ UNCHANGED << first_heap, drop_max >>
    ELSE IF drop_cur # Null
    THEN LET h == [first_heap EXCEPT ![drop_cur].next = Null] IN
         /\ drop_cur' = first_heap[drop_cur].next
         /\ first_heap' = BoxDrop(h, drop_cur)
         /\ drop_max' = Max(drop_max, BoxDropDepth(h, drop_cur))
         /\ UNCHANGED << teardown, first_head >>
    ELSE /\ teardown' = "done"
         /\ UNCHANGED << first_heap, first_head, drop_cur, drop_max >>

(***************************************************************************)
(* second.rs: IterableStack                                                *)
(***************************************************************************)

\* List::new; no iterator exists yet.
SecondNew ==
    /\ second_heap = << >>
    /\ second_head = Null
    /\ second_borrow = "none"
    /\ iter_next = Null
    /\ itermut_next = Null
    /\ itermut_refs = << >>

\* List::push: the new node takes the old head (head.take()) as its next.
SecondPush(i) ==
    \E a \in Fresh(second_heap) :
        /\ second_heap' = second_heap @@ (a :> [val |-> i, next |-> second_head])
        /\ second_head' = a
        /\ ret' = None

\* List::pop: head.take().map(..): head becomes node.next, the Box is dropped,
\* node.val is returned.  IntoIter::next is this call on the list it owns.
SecondPop ==
    IF second_head = Null
    THEN /\ ret' = None
         /\ UNCHANGED << second_heap, second_head >>
    ELSE /\ second_head' = second_heap[second_head].next
         /\ second_heap' = Free(second_heap, second_head)
         /\ ret' = Some(second_heap[second_head].val)

\* List::peek: a reference to the head's val, read here as the value it sees.
SecondPeek ==
    /\ ret' = IF second_head = Null THEN None
              ELSE Some(second_heap[second_head].val)
    /\ UNCHANGED << second_heap, second_head >>

\* List::peek_mut whose write is lost: the closure works on a copy of val.
SecondPeekMutWriteCopy(i) ==
    /\ ret' = IF second_head = Null THEN None
              ELSE Some(second_heap[second_head].val)
    /\ UNCHANGED << second_heap, second_head >>

\* List::peek_mut followed by a write of i through the returned reference
\* (list.peek_mut().map(|val| *val = i)); ret is what peek_mut returned, read
\* before the write.
SecondPeekMutWrite(i) ==
    /\ ret' = IF second_head = Null THEN None
              ELSE Some(second_heap[second_head].val)
    /\ second_heap' = IF second_head = Null THEN second_heap
                      ELSE [second_heap EXCEPT ![second_head].val = i]
    /\ UNCHANGED second_head

\* List::into_iter: the list moves into IntoIter.
SecondIntoIter ==
    /\ second_borrow' = "into_iter"
    /\ ret' = None
    /\ UNCHANGED << second_heap, second_head, iter_next, itermut_next, itermut_refs >>

\* IntoIter::next that reads the head of the list it owns without popping it.
IntoIterNextPeeks ==
    /\ ret' = IF second_head = Null THEN None
              ELSE Some(second_heap[second_head].val)
    /\ UNCHANGED << second_heap, second_head >>

\* IntoIter::next: self.0.pop().
IntoIterNext == SecondPop

\* List::iter: Iter.next is head.as_deref().
SecondIter ==
    /\ second_borrow' = "iter"
    /\ iter_next' = second_head
    /\ ret' = None
    /\ UNCHANGED << second_heap, second_head, itermut_next, itermut_refs >>

\* Iter::next that yields the value without moving Iter.next on.
IterNextStuck ==
    IF iter_next = Null
    THEN /\ ret' = None
         /\ UNCHANGED iter_next
    ELSE /\ ret' = Some(second_heap[iter_next].val)
         /\ UNCHANGED iter_next

\* Iter::next: next.map(|node| { next = node.next.as_deref(); &node.val }).
IterNext ==
    IF iter_next = Null
    THEN /\ ret' = None
         /\ UNCHANGED iter_next
    ELSE /\ iter_next' = second_heap[iter_next].next
         /\ ret' = Some(second_heap[iter_next].val)

\* List::iter_mut: IterMut.next is head.as_deref_mut().
SecondIterMut ==
    /\ second_borrow' = "iter_mut"
    /\ itermut_next' = second_head
    /\ itermut_refs' = << >>
    /\ ret' = None
    /\ UNCHANGED << second_heap, second_head, iter_next >>

\* IterMut::next that leaves IterMut.next on the node it hands out.
IterMutNextStuck ==
    IF itermut_next = Null
    THEN /\ ret' = None
         /\ UNCHANGED << itermut_next, itermut_refs >>
    ELSE /\ itermut_refs' = Append(itermut_refs, itermut_next)
         /\ ret' = Some(second_heap[itermut_next].val)
         /\ UNCHANGED itermut_next

\* IterMut::next: next.take().map(|node| { next = node.next.as_deref_mut();
\* &mut node.val }).  The reference handed out lives as long as the borrow.
IterMutNext ==
    IF itermut_next = Null
    THEN /\ ret' = None
         /\ UNCHANGED << itermut_next, itermut_refs >>
    ELSE /\ itermut_next' = second_heap[itermut_next].next
         /\ itermut_refs' = Append(itermut_refs, itermut_next)
         /\ ret' = Some(second_heap[itermut_next].val)

\* A write of i through the k-th reference IterMut::next handed out.
IterMutWrite(k, i) ==
    /\ second_heap' = [second_heap EXCEPT ![itermut_refs[k]].val = i]
    /\ ret' = None

\* Drop::drop of List<T>, one step of it: as in first.rs, with take().
SecondDrop ==
    IF teardown = "live"
    THEN /\ teardown' = "dropping"
         /\ drop_cur' = second_head
         /\ second_head' = Null
         /\ UNCHANGED << second_heap, drop_max >>
    ELSE IF drop_cur # Null
    THEN LET h == [second_heap EXCEPT ![drop_cur].next = Null] IN
         /\ drop_cur' = second_heap[drop_cur].next
         /\ second_heap' = BoxDrop(h, drop_cur)
         /\ drop_max' = Max(drop_max, BoxDropDepth(h, drop_cur))
         /\ UNCHANGED << teardown, second_head >>
    ELSE /\ teardown' = "done"
         /\ UNCHANGED << second_heap, second_head, drop_cur, drop_max >>

(***************************************************************************)
(* third.rs: PersistentList                                                *)
(*                                                                         *)
(* A List is its head link, and the Lists the caller holds are a bag of    *)
(* links: two Lists with the same head are told apart by nothing.  The     *)
(* operations are functions of a store st = [heap, lists, rc, made], made  *)
(* the head of the List the call returned, so that a chained call such as  *)
(* list.prepend(1).tail() is their composition.                            *)
(***************************************************************************)

\* List::new: the caller starts with one empty list.
ThirdNew ==
    /\ third_heap = << >>
    /\ third_lists = SetToBag({Null})
    /\ third_rc = << >>

ThirdStore ==
    [heap |-> third_heap, lists |-> third_lists, rc |-> third_rc, made |-> Null]

\* The Rc handles of the node at a that exist: the Lists whose head it is and
\* the nodes whose next it is.
ThirdStrong(h, lists, a) ==
    CopiesIn(a, lists) + Cardinality({x \in DOMAIN h : h[x].next = a})

\* Rc::clone of link l: the strong count of its node goes up by one.
RcClone(rc, l) == IF l = Null THEN rc ELSE [rc EXCEPT ![l] = @ + 1]

\* Drop of an Rc handle, link l, in store [heap, rc]: the strong count of its
\* node goes down by one; at zero the node is dropped, which drops its next
\* handle, and its memory is given back.
RECURSIVE RcDrop(_, _)
RcDrop(s, l) ==
    IF l = Null THEN s
    ELSE IF s.rc[l] > 1 THEN [s EXCEPT !.rc[l] = @ - 1]
    ELSE RcDrop([heap |-> Free(s.heap, l), rc |-> Free(s.rc, l)],
                s.heap[l].next)

\* The node destructors that drop of the Rc handle l nests: the node's own,
\* and inside it those of the drop of its next.
RECURSIVE RcDropDepth(_, _)
RcDropDepth(s, l) ==
    IF l = Null \/ s.rc[l] > 1 THEN 0
    ELSE 1 + RcDropDepth(s, s.heap[l].next)

\* List::new
NewOf(st) == [st EXCEPT !.lists = @ (+) SetToBag({Null}), !.made = Null]

\* List::prepend that also makes the new node the receiver's head, as push does.
PrependMovesHead(st, l, val) ==
    LET a == CHOOSE x \in Fresh(st.heap) : TRUE IN
    [heap  |-> st.heap @@ (a :> [val |-> val, next |-> l]),
     lists |-> (st.lists (-) SetToBag({l})) (+) SetToBag({a}) (+) SetToBag({a}),
     rc    |-> st.rc @@ (a :> 2),
     made  |-> a]

\* List::prepend on the List with head l: a new List whose head is a new node
\* (Rc::new, strong count 1) holding val, its next a clone of the receiver's
\* head.
Prepend(st, l, val) ==
    LET a == CHOOSE x \in Fresh(st.heap) : TRUE IN
    [heap  |-> st.heap @@ (a :> [val |-> val, next |-> l]),
     lists |-> st.lists (+) SetToBag({a}),
     rc    |-> RcClone(st.rc, l) @@ (a :> 1),
     made  |-> a]

\* List::tail that clones the receiver's head instead of the head's next.
TailClonesHead(st, l) ==
    [heap |-> st.heap, lists |-> st.lists (+) SetToBag({l}),
     rc |-> RcClone(st.rc, l), made |-> l]

\* List::tail that copies the link after the head without Rc::clone: no count
\* goes up.
TailNoClone(st, l) ==
    LET next == IF l = Null THEN Null ELSE st.heap[l].next IN
    [heap |-> st.heap, lists |-> st.lists (+) SetToBag({next}),
     rc |-> st.rc, made |-> next]

\* List::tail on the List with head l: a new List whose head is a clone of
\* the receiver's head's next, None for an empty receiver.
TailOf(st, l) ==
    LET next == IF l = Null THEN Null ELSE st.heap[l].next IN
    [heap |-> st.heap, lists |-> st.lists (+) SetToBag({next}),
     rc |-> RcClone(st.rc, next), made |-> next]

\* List::head on the List with head l.
HeadOf(st, l) ==
    IF l = Null THEN None ELSE Some(st.heap[l].val)

\* Drop of a List that gives back the head node at count zero without
\* dropping the node's next handle.
DropOfShallow(st, l) ==
    LET lists == st.lists (-) SetToBag({l}) IN
    IF l = Null THEN [st EXCEPT !.lists = lists]
    ELSE IF st.rc[l] > 1 THEN [st EXCEPT !.lists = lists, !.rc[l] = @ - 1]
    ELSE [heap |-> Free(st.heap, l), lists |-> lists, rc |-> Free(st.rc, l),
          made |-> st.made]

\* A List with head l goes out of scope: List has no Drop impl, its head
\* field, an Rc handle, is dropped.
DropOf(st, l) ==
    LET s == RcDrop([heap |-> st.heap, rc |-> st.rc], l) IN
    [heap |-> s.heap, lists |-> st.lists (-) SetToBag({l}), rc |-> s.rc,
     made |-> st.made]

(***************************************************************************)
(* fourth.rs: SharedDeque                                                  *)
(***************************************************************************)

\* List::new; no Ref<T> is out.
FourthNew ==
    /\ fourth_heap = << >>
    /\ fourth_head = Null
    /\ fourth_tail = Null
    /\ fourth_panic = "none"
    /\ fourth_views = EmptyBag

\* Rc::strong_count of the node at a: the Rc handles held by List.head,
\* List.tail and the next and prev links of the nodes of heap h.
RcStrong(h, head, tail, a) ==
    (IF head = a THEN 1 ELSE 0) + (IF tail = a THEN 1 ELSE 0)
    + Cardinality({x \in DOMAIN h : h[x].next = a})
    + Cardinality({x \in DOMAIN h : h[x].prev = a})

\* The RefCell of the node at a is read-borrowed: a Ref<T> that peek_front or
\* peek_back returned is still out, and borrow_mut() on the node panics.
Viewed(a) == CopiesIn(a, fourth_views) > 0

\* Node::new: an unlinked node.
NodeNew(val) == [val |-> val, next |-> Null, prev |-> Null]

\* List::push_front without old_head.prev = new_head.
FourthPushFrontNoPrev(val) ==
    \E a \in Fresh(fourth_heap) :
        LET h == fourth_heap @@ (a :> NodeNew(val)) IN
        /\ IF fourth_head = Null
           THEN /\ fourth_heap' = h
                /\ fourth_head' = a
                /\ fourth_tail' = a
                /\ UNCHANGED fourth_panic
           ELSE IF Viewed(fourth_head)
           THEN /\ fourth_panic' = "already borrowed"
                /\ fourth_head' = Null
                /\ UNCHANGED << fourth_heap, fourth_tail >>
           ELSE /\ fourth_heap' = [h EXCEPT ![a].next = fourth_head]
                /\ fourth_head' = a
                /\ UNCHANGED << fourth_tail, fourth_panic >>
        /\ ret' = None
        /\ UNCHANGED fourth_views

\* List::push_front that links the new node to itself: new_head.next is a clone
\* of new_head instead of old_head.
FourthPushFrontSelfNext(val) ==
    \E a \in Fresh(fourth_heap) :
        LET h == fourth_heap @@ (a :> NodeNew(val)) IN
        /\ IF fourth_head = Null
           THEN /\ fourth_heap' = h
                /\ fourth_head' = a
                /\ fourth_tail' = a
                /\ UNCHANGED fourth_panic
           ELSE IF Viewed(fourth_head)
           THEN /\ fourth_panic' = "already borrowed"
                /\ fourth_head' = Null
                /\ UNCHANGED << fourth_heap, fourth_tail >>
           ELSE /\ fourth_heap' = [h EXCEPT ![fourth_head].prev = a,
                                            ![a].next = a]
                /\ fourth_head' = a
                /\ UNCHANGED << fourth_tail, fourth_panic >>
        /\ ret' = None
        /\ UNCHANGED fourth_views

\* List::push_front: head.take(); with no head the node becomes head and tail;
\* otherwise old_head.borrow_mut().prev = new_head (a panic when old_head is
\* read-borrowed: the new node and the taken head handle are dropped, no node
\* is changed), new_head.next = old_head, head = new_head.
FourthPushFront(val) ==
    \E a \in Fresh(fourth_heap) :
        LET h == fourth_heap @@ (a :> NodeNew(val)) IN
        /\ IF fourth_head = Null
           THEN /\ fourth_heap' = h
                /\ fourth_head' = a
                /\ fourth_tail' = a
                /\ UNCHANGED fourth_panic
           ELSE IF Viewed(fourth_head)
           THEN /\ fourth_panic' = "already borrowed"
                /\ fourth_head' = Null
                /\ UNCHANGED << fourth_heap, fourth_tail >>
           ELSE /\ fourth_heap' = [h EXCEPT ![fourth_head].prev = a,
                                            ![a].next = fourth_head]
                /\ fourth_head' = a
                /\ UNCHANGED << fourth_tail, fourth_panic >>
        /\ ret' = None
        /\ UNCHANGED fourth_views

\* List::push_back without new_tail.prev = old_tail.
FourthPushBackNoPrev(val) ==
    \E a \in Fresh(fourth_heap) :
        LET h == fourth_heap @@ (a :> NodeNew(val)) IN
        /\ IF fourth_tail = Null
           THEN /\ fourth_heap' = h
                /\ fourth_head' = a
                /\ fourth_tail' = a
                /\ UNCHANGED fourth_panic
           ELSE IF Viewed(fourth_tail)
           THEN /\ fourth_panic' = "already borrowed"
                /\ fourth_tail' = Null
                /\ UNCHANGED << fourth_heap, fourth_head >>
           ELSE /\ fourth_heap' = [h EXCEPT ![fourth_tail].next = a]
                /\ fourth_tail' = a
                /\ UNCHANGED << fourth_head, fourth_panic >>
        /\ ret' = None
        /\ UNCHANGED fourth_views

\* List::push_back: the mirror image of push_front, at List.tail.
FourthPushBack(val) ==
    \E a \in Fresh(fourth_heap) :
        LET h == fourth_heap @@ (a :> NodeNew(val)) IN
        /\ IF fourth_tail = Null
           THEN /\ fourth_heap' = h
                /\ fourth_head' = a
                /\ fourth_tail' = a
                /\ UNCHANGED fourth_panic
           ELSE IF Viewed(fourth_tail)
           THEN /\ fourth_panic' = "already borrowed"
                /\ fourth_tail' = Null
                /\ UNCHANGED << fourth_heap, fourth_head >>
           ELSE /\ fourth_heap' = [h EXCEPT ![fourth_tail].next = a,
                                            ![a].prev = fourth_tail]
                /\ fourth_tail' = a
                /\ UNCHANGED << fourth_head, fourth_panic >>
        /\ ret' = None
        /\ UNCHANGED fourth_views

\* List::pop_front that leaves List.tail alone when the last node goes.
FourthPopFrontKeepsTail ==
    IF fourth_head = Null
    THEN /\ ret' = None
         /\ UNCHANGED fourthVars
    ELSE LET old_head == fourth_head
             new_head == fourth_heap[old_head].next
             h1 == [fourth_heap EXCEPT ![old_head].next = Null]
         IN  IF Viewed(old_head)
             THEN /\ fourth_panic' = "already borrowed"
                  /\ fourth_head' = Null
                  /\ ret' = None
                  /\ UNCHANGED << fourth_heap, fourth_tail, fourth_views >>
             ELSE IF new_head # Null /\ (new_head = old_head \/ Viewed(new_head))
             THEN /\ fourth_panic' = "already borrowed"
                  /\ fourth_heap' = h1
                  /\ fourth_head' = Null
                  /\ ret' = None
                  /\ UNCHANGED << fourth_tail, fourth_views >>
             ELSE LET h2   == IF new_head # Null
                              THEN [h1 EXCEPT ![new_head].prev = Null] ELSE h1
                  IN  /\ fourth_head' = new_head
                      /\ UNCHANGED << fourth_tail, fourth_views >>
                      /\ IF RcStrong(h2, new_head, fourth_tail, old_head) = 0
                         THEN /\ fourth_heap' = Free(h2, old_head)
                              /\ ret' = Some(fourth_heap[old_head].val)
                              /\ UNCHANGED fourth_panic
                         ELSE /\ fourth_heap' = h2
                              /\ ret' = None
                              /\ fourth_panic' = "unwrap on None"

\* List::pop_front that reaches into the nodes without asking their RefCell
\* (as_ptr() in place of borrow_mut()): a read-borrowed node is changed.
FourthPopFrontUnchecked ==
    IF fourth_head = Null
    THEN /\ ret' = None
         /\ UNCHANGED fourthVars
    ELSE LET old_head == fourth_head
             new_head == fourth_heap[old_head].next
             h1 == [fourth_heap EXCEPT ![old_head].next = Null]
             h2 == IF new_head # Null
                   THEN [h1 EXCEPT ![new_head].prev = Null] ELSE h1
             tail == IF new_head # Null THEN fourth_tail ELSE Null
         IN  /\ fourth_head' = new_head
             /\ fourth_tail' = tail
             /\ UNCHANGED fourth_views
             /\ IF RcStrong(h2, new_head, tail, old_head) = 0
                THEN /\ fourth_heap' = Free(h2, old_head)
                     /\ ret' = Some(fourth_heap[old_head].val)
                     /\ UNCHANGED fourth_panic
                ELSE /\ fourth_heap' = h2
                     /\ ret' = None
                     /\ fourth_panic' = "unwrap on None"

\* List::pop_front: head.take(); old_head.borrow_mut().next.take(), the
\* RefMut of old_head lasting for the match; a new head is mutably borrowed to
\* lose its prev and becomes head, with none List.tail is taken; then
\* Rc::try_unwrap(old_head) must find old_head the only handle left.
\* borrow_mut() panics on a node that is read-borrowed or (the new head being
\* old_head itself) mutably borrowed: unwinding drops the handles taken so far
\* and leaves the nodes as they are.  A panic ends the run where it rises.
FourthPopFront ==
    IF fourth_head = Null
    THEN /\ ret' = None
         /\ UNCHANGED fourthVars
    ELSE LET old_head == fourth_head
             new_head == fourth_heap[old_head].next
             h1 == [fourth_heap EXCEPT ![old_head].next = Null]
         IN  IF Viewed(old_head)
             THEN /\ fourth_panic' = "already borrowed"
                  /\ fourth_head' = Null
                  /\ ret' = None
                  /\ UNCHANGED << fourth_heap, fourth_tail, fourth_views >>
             ELSE IF new_head # Null /\ (new_head = old_head \/ Viewed(new_head))
             THEN /\ fourth_panic' = "already borrowed"
                  /\ fourth_heap' = h1
                  /\ fourth_head' = Null
                  /\ ret' = None
                  /\ UNCHANGED << fourth_tail, fourth_views >>
             ELSE LET h2   == IF new_head # Null
                              THEN [h1 EXCEPT ![new_head].prev = Null] ELSE h1
                      tail == IF new_head # Null THEN fourth_tail ELSE Null
                  IN  /\ fourth_head' = new_head
                      /\ fourth_tail' = tail
                      /\ UNCHANGED fourth_views
                      /\ IF RcStrong(h2, new_head, tail, old_head) = 0
                         THEN /\ fourth_heap' = Free(h2, old_head)
                              /\ ret' = Some(fourth_heap[old_head].val)
                              /\ UNCHANGED fourth_panic
                         ELSE /\ fourth_heap' = h2
                              /\ ret' = None
                              /\ fourth_panic' = "unwrap on None"

\* List::pop_back: the mirror image, from List.tail along prev.
FourthPopBack ==
    IF fourth_tail = Null
    THEN /\ ret' = None
         /\ UNCHANGED fourthVars
    ELSE LET old_tail == fourth_tail
             new_tail == fourth_heap[old_tail].prev
             h1 == [fourth_heap EXCEPT ![old_tail].prev = Null]
         IN  IF Viewed(old_tail)
             THEN /\ fourth_panic' = "already borrowed"
                  /\ fourth_tail' = Null
                  /\ ret' = None
                  /\ UNCHANGED << fourth_heap, fourth_head, fourth_views >>
             ELSE IF new_tail # Null /\ (new_tail = old_tail \/ Viewed(new_tail))
             THEN /\ fourth_panic' = "already borrowed"
                  /\ fourth_heap' = h1
                  /\ fourth_tail' = Null
                  /\ ret' = None
                  /\ UNCHANGED << fourth_head, fourth_views >>
             ELSE LET h2   == IF new_tail # Null
                              THEN [h1 EXCEPT ![new_tail].next = Null] ELSE h1
                      head == IF new_tail # Null THEN fourth_head ELSE Null
                  IN  /\ fourth_tail' = new_tail
                      /\ fourth_head' = head
                      /\ UNCHANGED fourth_views
                      /\ IF RcStrong(h2, head, new_tail, old_tail) = 0
                         THEN /\ fourth_heap' = Free(h2, old_tail)
                              /\ ret' = Some(fourth_heap[old_tail].val)
                              /\ UNCHANGED fourth_panic
                         ELSE /\ fourth_heap' = h2
                              /\ ret' = None
                              /\ fourth_panic' = "unwrap on None"

\* List::peek_back that reads List.head.
FourthPeekBackReadsHead ==
    /\ ret' = IF fourth_head = Null THEN None
              ELSE Some(fourth_heap[fourth_head].val)
    /\ fourth_views' = IF fourth_head = Null THEN fourth_views
                       ELSE fourth_views (+) SetToBag({fourth_head})
    /\ UNCHANGED << fourth_heap, fourth_head, fourth_tail, fourth_panic >>

\* List::peek_front: None without a head; otherwise node.borrow() read-borrows
\* the head node and the Ref<T> of its val is returned.  No RefMut outlives a
\* call, so borrow() does not panic.
FourthPeekFront ==
    /\ ret' = IF fourth_head = Null THEN None
              ELSE Some(fourth_heap[fourth_head].val)
    /\ fourth_views' = IF fourth_head = Null THEN fourth_views
                       ELSE fourth_views (+) SetToBag({fourth_head})
    /\ UNCHANGED << fourth_heap, fourth_head, fourth_tail, fourth_panic >>

\* List::peek_back: the same at List.tail.
FourthPeekBack ==
    /\ ret' = IF fourth_tail = Null THEN None
              ELSE Some(fourth_heap[fourth_tail].val)
    /\ fourth_views' = IF fourth_tail = Null THEN fourth_views
                       ELSE fourth_views (+) SetToBag({fourth_tail})
    /\ UNCHANGED << fourth_heap, fourth_head, fourth_tail, fourth_panic >>

\* A Ref<T> of the node at a is dropped: the read borrow is given back.
FourthViewDrop(a) ==
    /\ Viewed(a)
    /\ fourth_views' = fourth_views (-) SetToBag({a})
    /\ ret' = None
    /\ UNCHANGED << fourth_heap, fourth_head, fourth_tail, fourth_panic >>

\* The drop of a List<T> without Drop::drop: the head and tail fields are
\* dropped; a lone node is freed, two or more keep one another alive through
\* next and prev.
FourthDropFields ==
    /\ fourth_head' = Null
    /\ fourth_tail' = Null
    /\ fourth_heap' = IF Cardinality(DOMAIN fourth_heap) <= 1 THEN << >>
                      ELSE fourth_heap
    /\ teardown' = "done"
    /\ ret' = None
    /\ UNCHANGED << fourth_panic, fourth_views, drop_cur, drop_max >>

\* Drop::drop of List<T>, one turn of while self.pop_front().is_some() {}:
\* the loop is left when pop_front returns None.  The node pop_front took out
\* of its Rc is dropped with its next taken and no prev.
FourthDrop ==
    /\ FourthPopFront
    /\ teardown' = IF ret' = None THEN "done" ELSE "dropping"
    /\ drop_max' = IF ret' = None THEN drop_max ELSE Max(drop_max, 1)
    /\ UNCHANGED drop_cur

(***************************************************************************)
(* fifth.rs: ExclusiveQueue                                                *)
(***************************************************************************)

\* List::new
FifthNew ==
    /\ fifth_heap = << >>
    /\ fifth_head = Null
    /\ fifth_tail = Null
    /\ fifth_ub = FALSE

\* List::push that sets List.tail only when it was null: the tail pointer stays
\* on the first node.
FifthPushStaleTail(val) ==
    \E a \in AnyFresh(fifth_heap) :
        LET h == fifth_heap @@ (a :> [val |-> val, next |-> Null]) IN
        /\ IF fifth_tail # Null
           THEN /\ fifth_heap' = IF fifth_tail \in DOMAIN h
                                 THEN [h EXCEPT ![fifth_tail].next = a]
                                 ELSE h
                /\ fifth_ub' = (fifth_ub \/ fifth_tail \notin DOMAIN fifth_heap)
                /\ UNCHANGED << fifth_head, fifth_tail >>
           ELSE /\ fifth_heap' = h
                /\ fifth_head' = a
                /\ fifth_tail' = a
                /\ UNCHANGED fifth_ub
        /\ ret' = None

\* List::push: the new node goes behind the node List.tail points at, or
\* becomes head when List.tail is null; List.tail then points at it.  A write
\* through a List.tail whose node was freed is undefined behaviour: the store
\* lands in the new node when the allocator reused the address (the node then
\* owns itself), and in freed memory otherwise (the new node is lost).
FifthPush(val) ==
    \E a \in AnyFresh(fifth_heap) :
        LET h == fifth_heap @@ (a :> [val |-> val, next |-> Null]) IN
        /\ IF fifth_tail # Null
           THEN /\ fifth_heap' = IF fifth_tail \in DOMAIN h
                                 THEN [h EXCEPT ![fifth_tail].next = a]
                                 ELSE h
                /\ fifth_ub' = (fifth_ub \/ fifth_tail \notin DOMAIN fifth_heap)
                /\ UNCHANGED fifth_head
           ELSE /\ fifth_heap' = h
                /\ fifth_head' = a
                /\ UNCHANGED fifth_ub
        /\ fifth_tail' = a
        /\ ret' = None

\* List::pop without the reset of List.tail when the queue becomes empty.
FifthPopKeepsTail ==
    IF fifth_head = Null
    THEN /\ ret' = None
         /\ UNCHANGED fifthVars
    ELSE LET head == fifth_heap[fifth_head] IN
         /\ fifth_head' = head.next
         /\ fifth_heap' = Free(fifth_heap, fifth_head)
         /\ ret' = Some(head.val)
         /\ UNCHANGED << fifth_tail, fifth_ub >>

\* List::pop that nulls List.tail on every pop, not only on the last.
FifthPopNullsTail ==
    IF fifth_head = Null
    THEN /\ ret' = None
         /\ UNCHANGED fifthVars
    ELSE LET head == fifth_heap[fifth_head] IN
         /\ fifth_head' = head.next
         /\ fifth_tail' = Null
         /\ fifth_heap' = Free(fifth_heap, fifth_head)
         /\ ret' = Some(head.val)
         /\ UNCHANGED fifth_ub

\* List::pop: None on an empty queue; otherwise head becomes head.next, the
\* tail pointer is nulled when that leaves the queue empty, the Box is dropped
\* and Some(head.val) is returned.
FifthPop ==
    IF fifth_head = Null
    THEN /\ ret' = None
         /\ UNCHANGED fifthVars
    ELSE LET head == fifth_heap[fifth_head] IN
         /\ fifth_head' = head.next
         /\ fifth_tail' = IF head.next = Null THEN Null ELSE fifth_tail
         /\ fifth_heap' = Free(fifth_heap, fifth_head)
         /\ ret' = Some(head.val)
         /\ UNCHANGED fifth_ub

\* The drop of a List<T>: fifth.rs has no Drop::drop, so the fields are
\* dropped: head, an Option<Box<Node<T>>>, by the drop glue of Node, and the
\* raw tail pointer, which owns nothing.
FifthDrop ==
    /\ fifth_heap' = BoxDrop(fifth_heap, fifth_head)
    /\ drop_max' = Max(drop_max, BoxDropDepth(fifth_heap, fifth_head))
    /\ fifth_head' = Null
    /\ fifth_tail' = Null
    /\ teardown' = "done"
    /\ UNCHANGED << fifth_ub, drop_cur >>

(***************************************************************************)
(* The reference model: a sequence, front (head) first.                    *)
(***************************************************************************)

RefFront(s)    == IF s = << >> THEN None ELSE Some(s[1])
RefBack(s)     == IF s = << >> THEN None ELSE Some(s[Len(s)])
RefPopFront(s) == IF s = << >> THEN s ELSE Tail(s)
RefPopBack(s)  == IF s = << >> THEN s ELSE SubSeq(s, 1, Len(s) - 1)

(***************************************************************************)
(* The callers: one operation per step on the list under test, with the    *)
(* reference model updated beside it.  The borrow checker decides which    *)
(* calls second.rs admits while an iterator holds the list.                *)
(***************************************************************************)

Variants == {"first", "second", "third", "fourth", "fifth"}

Init ==
    /\ variant \in Variants
    /\ last = "new"
    /\ ret = None
    /\ ref = << >>
    /\ exp = None
    /\ out = << >>
    /\ snap = << >>
    /\ iter_prev = None
    /\ teardown = "live"
    /\ drop_cur = Null
    /\ drop_max = 0
    /\ FirstNew
    /\ SecondNew
    /\ ThirdNew
    /\ FourthNew
    /\ FifthNew

notFirst  == << variant, dropVars, secondVars, thirdVars, fourthVars, fifthVars >>
notSecond == << variant, dropVars, firstVars, thirdVars, fourthVars, fifthVars >>
notThird  == << variant, dropVars, refVars, firstVars, secondVars, fourthVars,
               fifthVars >>
notFourth == << variant, dropVars, firstVars, secondVars, thirdVars, fifthVars >>
notFifth  == << variant, dropVars, firstVars, secondVars, thirdVars, fourthVars >>

CallFirstPush ==
    /\ variant = "first"
    /\ teardown = "live"
    /\ \E elem \in Values : FirstPush(elem) /\ ref' = << elem >> \o ref
    /\ exp' = None
    /\ last' = "push"
    /\ UNCHANGED << out, snap, iter_prev, notFirst >>

CallFirstPop ==
    /\ variant = "first"
    /\ teardown = "live"
    /\ FirstPop
    /\ exp' = RefFront(ref)
    /\ ref' = RefPopFront(ref)
    /\ last' = "pop"
    /\ UNCHANGED << out, snap, iter_prev, notFirst >>

CallSecondPush ==
    /\ variant = "second"
    /\ teardown = "live"
    /\ second_borrow = "none"
    /\ \E i \in Values : SecondPush(i) /\ ref' = << i >> \o ref
    /\ exp' = None
    /\ iter_prev' = None
    /\ last' = "push"
    /\ UNCHANGED << out, snap, second_borrow, iter_next, itermut_next, itermut_refs,
                    notSecond >>

CallSecondPop ==
    /\ variant = "second"
    /\ teardown = "live"
    /\ second_borrow = "none"
    /\ SecondPop
    /\ exp' = RefFront(ref)
    /\ ref' = RefPopFront(ref)
    /\ iter_prev' = IF ref = << >> THEN iter_prev ELSE None
    /\ last' = "pop"
    /\ UNCHANGED << out, snap, second_borrow, iter_next, itermut_next, itermut_refs,
                    notSecond >>

\* peek takes &self: it may be called while an Iter lives.
CallSecondPeek ==
    /\ variant = "second"
    /\ teardown = "live"
    /\ second_borrow \in {"none", "iter"}
    /\ SecondPeek
    /\ exp' = RefFront(ref)
    /\ last' = "peek"
    /\ UNCHANGED << ref, out, snap, iter_prev, second_borrow, iter_next,
                    itermut_next, itermut_refs, notSecond >>

CallSecondPeekMutWrite ==
    /\ variant = "second"
    /\ teardown = "live"
    /\ second_borrow = "none"
    /\ \E i \in Values :
          /\ SecondPeekMutWrite(i)
          /\ ref' = IF ref = << >> THEN ref ELSE [ref EXCEPT ![1] = i]
    /\ exp' = RefFront(ref)
    /\ iter_prev' = None
    /\ last' = "peek_mut"
    /\ UNCHANGED << out, snap, second_borrow, iter_next, itermut_next, itermut_refs,
                    notSecond >>

CallSecondIntoIter ==
    /\ variant = "second"
    /\ teardown = "live"
    /\ second_borrow = "none"
    /\ SecondIntoIter
    /\ snap' = ref
    /\ out' = << >>
    /\ exp' = None
    /\ iter_prev' = None
    /\ last' = "into_iter"
    /\ UNCHANGED << ref, notSecond >>

\* The caller collects what the IntoIter yields.
CallIntoIterNext ==
    /\ variant = "second"
    /\ teardown = "live"
    /\ second_borrow = "into_iter"
    /\ IntoIterNext
    /\ exp' = RefFront(ref)
    /\ ref' = RefPopFront(ref)
    /\ out' = out \o ret'
    /\ last' = "into_iter.next"
    /\ UNCHANGED << snap, iter_prev, second_borrow, iter_next, itermut_next,
                    itermut_refs, notSecond >>

CallSecondIter ==
    /\ variant = "second"
    /\ teardown = "live"
    /\ second_borrow = "none"
    /\ SecondIter
    /\ out' = << >>
    /\ exp' = None
    /\ last' = "iter"
    /\ UNCHANGED << ref, snap, iter_prev, notSecond >>

\* The caller collects what the Iter yields; the reference model expects the
\* element after those already collected.
CallIterNext ==
    /\ variant = "second"
    /\ teardown = "live"
    /\ second_borrow = "iter"
    /\ IterNext
    /\ exp' = IF Len(out) < Len(ref) THEN Some(ref[Len(out) + 1]) ELSE None
    /\ out' = out \o ret'
    /\ last' = "iter.next"
    /\ UNCHANGED << ref, snap, iter_prev, second_heap, second_head, second_borrow,
                    itermut_next, itermut_refs, notSecond >>

\* The Iter goes out of scope: the shared borrow ends.  What an exhausted Iter
\* yielded is kept for comparison with the next one.
CallIterDrop ==
    /\ variant = "second"
    /\ teardown = "live"
    /\ second_borrow = "iter"
    /\ second_borrow' = "none"
    /\ iter_next' = Null
    /\ iter_prev' = IF iter_next = Null THEN Some(out) ELSE iter_prev
    /\ out' = << >>
    /\ ret' = None
    /\ exp' = None
    /\ last' = "iter.drop"
    /\ UNCHANGED << ref, snap, second_heap, second_head, itermut_next, itermut_refs,
                    notSecond >>

CallSecondIterMut ==
    /\ variant = "second"
    /\ teardown = "live"
    /\ second_borrow = "none"
    /\ SecondIterMut
    /\ out' = << >>
    /\ exp' = None
    /\ iter_prev' = None
    /\ last' = "iter_mut"
    /\ UNCHANGED << ref, snap, notSecond >>

CallIterMutNext ==
    /\ variant = "second"
    /\ teardown = "live"
    /\ second_borrow = "iter_mut"
    /\ IterMutNext
    /\ exp' = IF Len(out) < Len(ref) THEN Some(ref[Len(out) + 1]) ELSE None
    /\ out' = out \o ret'
    /\ last' = "iter_mut.next"
    /\ UNCHANGED << ref, snap, iter_prev, second_heap, second_head, second_borrow,
                    iter_next, notSecond >>

\* The caller writes through one of the references it was handed.
CallIterMutWrite ==
    /\ variant = "second"
    /\ teardown = "live"
    /\ second_borrow = "iter_mut"
    /\ \E k \in 1..Len(itermut_refs), i \in Values :
          /\ IterMutWrite(k, i)
          /\ ref' = [ref EXCEPT ![k] = i]
    /\ exp' = None
    /\ last' = "iter_mut.write"
    /\ UNCHANGED << out, snap, iter_prev, second_head, second_borrow, iter_next,
                    itermut_next, itermut_refs, notSecond >>

\* The IterMut and the references it handed out go out of scope.
CallIterMutDrop ==
    /\ variant = "second"
    /\ teardown = "live"
    /\ second_borrow = "iter_mut"
    /\ second_borrow' = "none"
    /\ itermut_next' = Null
    /\ itermut_refs' = << >>
    /\ out' = << >>
    /\ ret' = None
    /\ exp' = None
    /\ last' = "iter_mut.drop"
    /\ UNCHANGED << ref, snap, iter_prev, second_heap, second_head, iter_next,
                    notSecond >>

\* The caller's steps on third.rs, each on one of the Lists it holds; the
\* List a call returns joins them.  ThirdSet(st) is the step to store st.
ThirdSet(st) ==
    third_heap' = st.heap /\ third_lists' = st.lists /\ third_rc' = st.rc

Held == BagToSet(third_lists)
Room == BagCardinality(third_lists) < MaxLists

NewStep ==
    /\ last' = "new"
    /\ ret' = None
    /\ Room
    /\ ThirdSet(NewOf(ThirdStore))

PrependStep(l, val) ==
    /\ last' = "prepend"
    /\ ret' = None
    /\ Room
    /\ Fresh(third_heap) # {}
    /\ ThirdSet(Prepend(ThirdStore, l, val))

TailStep(l) ==
    /\ last' = "tail"
    /\ ret' = None
    /\ Room
    /\ ThirdSet(TailOf(ThirdStore, l))

\* let k = l.prepend(val).tail(): the temporary List that prepend returned is
\* dropped as the statement ends.
PrependTail(st, l, val) ==
    LET s1 == Prepend(st, l, val)
        s2 == TailOf(s1, s1.made)
    IN  DropOf(s2, s1.made)

PrependTailStep(l, val) ==
    /\ last' = "prepend.tail"
    /\ ret' = None
    /\ Room
    /\ Fresh(third_heap) # {}
    /\ ThirdSet(PrependTail(ThirdStore, l, val))

HeadStep(l) ==
    /\ last' = "head"
    /\ ret' = HeadOf(ThirdStore, l)
    /\ UNCHANGED << third_heap, third_lists, third_rc >>

DropStep(l) ==
    /\ last' = "drop"
    /\ ret' = None
    /\ ThirdSet(DropOf(ThirdStore, l))

CallThirdNew ==
    variant = "third" /\ teardown = "live" /\ NewStep /\ UNCHANGED notThird

CallThirdPrepend ==
    /\ variant = "third"
    /\ teardown = "live"
    /\ \E l \in Held, val \in ThirdElems : PrependStep(l, val)
    /\ UNCHANGED notThird

CallThirdTail ==
    /\ variant = "third"
    /\ teardown = "live"
    /\ \E l \in Held : TailStep(l)
    /\ UNCHANGED notThird

CallThirdPrependTail ==
    /\ variant = "third"
    /\ teardown = "live"
    /\ \E l \in Held, val \in ThirdElems : PrependTailStep(l, val)
    /\ UNCHANGED notThird

CallThirdHead ==
    /\ variant = "third"
    /\ teardown = "live"
    /\ \E l \in Held : HeadStep(l)
    /\ UNCHANGED notThird

CallThirdDrop ==
    /\ variant = "third"
    /\ teardown = "live"
    /\ \E l \in Held : DropStep(l)
    /\ UNCHANGED notThird

CallFourthPushFront ==
    /\ variant = "fourth"
    /\ teardown = "live"
    /\ fourth_panic = "none"
    /\ \E val \in Values : FourthPushFront(val) /\ ref' = << val >> \o ref
    /\ exp' = None
    /\ last' = "push_front"
    /\ UNCHANGED << out, snap, iter_prev, notFourth >>

CallFourthPushBack ==
    /\ variant = "fourth"
    /\ teardown = "live"
    /\ fourth_panic = "none"
    /\ \E val \in Values : FourthPushBack(val) /\ ref' = ref \o << val >>
    /\ exp' = None
    /\ last' = "push_back"
    /\ UNCHANGED << out, snap, iter_prev, notFourth >>

CallFourthPopFront ==
    /\ variant = "fourth"
    /\ teardown = "live"
    /\ fourth_panic = "none"
    /\ FourthPopFront
    /\ exp' = RefFront(ref)
    /\ ref' = RefPopFront(ref)
    /\ last' = "pop_front"
    /\ UNCHANGED << out, snap, iter_prev, notFourth >>

CallFourthPopBack ==
    /\ variant = "fourth"
    /\ teardown = "live"
    /\ fourth_panic = "none"
    /\ FourthPopBack
    /\ exp' = RefBack(ref)
    /\ ref' = RefPopBack(ref)
    /\ last' = "pop_back"
    /\ UNCHANGED << out, snap, iter_prev, notFourth >>

\* The caller takes a view of an end, keeping at most MaxViews of them.
CallFourthPeekFront ==
    /\ variant = "fourth"
    /\ teardown = "live"
    /\ fourth_panic = "none"
    /\ BagCardinality(fourth_views) < MaxViews
    /\ FourthPeekFront
    /\ exp' = RefFront(ref)
    /\ last' = "peek_front"
    /\ UNCHANGED << ref, out, snap, iter_prev, notFourth >>

CallFourthPeekBack ==
    /\ variant = "fourth"
    /\ teardown = "live"
    /\ fourth_panic = "none"
    /\ BagCardinality(fourth_views) < MaxViews
    /\ FourthPeekBack
    /\ exp' = RefBack(ref)
    /\ last' = "peek_back"
    /\ UNCHANGED << ref, out, snap, iter_prev, notFourth >>

\* One of the views the caller holds goes out of scope.
CallFourthViewDrop ==
    /\ variant = "fourth"
    /\ teardown = "live"
    /\ fourth_panic = "none"
    /\ \E a \in BagToSet(fourth_views) : FourthViewDrop(a)
    /\ exp' = None
    /\ last' = "view.drop"
    /\ UNCHANGED << ref, out, snap, iter_prev, notFourth >>

CallFifthPush ==
    /\ variant = "fifth"
    /\ teardown = "live"
    /\ \E val \in Values : FifthPush(val) /\ ref' = ref \o << val >>
    /\ exp' = None
    /\ last' = "push"
    /\ UNCHANGED << out, snap, iter_prev, notFifth >>

CallFifthPop ==
    /\ variant = "fifth"
    /\ teardown = "live"
    /\ FifthPop
    /\ exp' = RefFront(ref)
    /\ ref' = RefPopFront(ref)
    /\ last' = "pop"
    /\ UNCHANGED << out, snap, iter_prev, notFifth >>

\* The List under test goes out of scope: the steps of its drop.
CallFirstDrop ==
    /\ variant = "first"
    /\ teardown # "done"
    /\ FirstDrop
    /\ ret' = None
    /\ last' = "drop"
    /\ UNCHANGED << variant, refVars, secondVars, thirdVars, fourthVars, fifthVars >>

CallSecondDrop ==
    /\ variant = "second"
    /\ teardown # "done"
    /\ second_borrow = "none"
    /\ SecondDrop
    /\ ret' = None
    /\ last' = "drop"
    /\ UNCHANGED << variant, refVars, firstVars, thirdVars, fourthVars, fifthVars,
                    second_borrow, iter_next, itermut_next, itermut_refs >>

\* One of the Lists of third.rs goes out of scope, the nesting of its drop
\* being measured.
CallThirdTeardown ==
    /\ variant = "third"
    /\ teardown = "live"
    /\ \E l \in Held :
          /\ ThirdSet(DropOf(ThirdStore, l))
          /\ drop_max' = Max(drop_max,
                             RcDropDepth([heap |-> third_heap, rc |-> third_rc], l))
    /\ ret' = None
    /\ last' = "drop"
    /\ UNCHANGED << variant, refVars, firstVars, secondVars, fourthVars, fifthVars,
                    teardown, drop_cur >>

CallFourthDrop ==
    /\ variant = "fourth"
    /\ teardown # "done"
    /\ fourth_panic = "none"
    /\ FourthDrop
    /\ last' = "drop"
    /\ UNCHANGED << variant, refVars, firstVars, secondVars, thirdVars, fifthVars >>

CallFifthDrop ==
    /\ variant = "fifth"
    /\ teardown = "live"
    /\ FifthDrop
    /\ ret' = None
    /\ last' = "drop"
    /\ UNCHANGED << variant, refVars, firstVars, secondVars, thirdVars, fourthVars >>

\* first.rs and second.rs, the two stacks.
NextStacks ==
    \/ CallFirstPush
    \/ CallFirstPop
    \/ CallSecondPush
    \/ CallSecondPop
    \/ CallSecondPeek
    \/ CallSecondPeekMutWrite
    \/ CallSecondIntoIter
    \/ CallIntoIterNext
    \/ CallSecondIter
    \/ CallIterNext
    \/ CallIterDrop
    \/ CallSecondIterMut
    \/ CallIterMutNext
    \/ CallIterMutWrite
    \/ CallIterMutDrop

InitStacks == Init /\ variant \in {"first", "second"}

SpecStacks == InitStacks /\ [][NextStacks]_vars

\* third.rs, the persistent list.
NextThird ==
    \/ CallThirdNew
    \/ CallThirdPrepend
    \/ CallThirdTail
    \/ CallThirdPrependTail
    \/ CallThirdHead
    \/ CallThirdDrop

InitThird == Init /\ variant = "third"

SpecThird == InitThird /\ [][NextThird]_vars

\* fourth.rs and fifth.rs, the deque and the queue.
NextEnds ==
    \/ CallFourthPushFront
    \/ CallFourthPushBack
    \/ CallFourthPopFront
    \/ CallFourthPopBack
    \/ CallFifthPush
    \/ CallFifthPop

InitEnds == Init /\ variant \in {"fourth", "fifth"}

SpecEnds == InitEnds /\ [][NextEnds]_vars

\* fourth.rs with views: the deque's calls while Ref<T> from peek_front and
\* peek_back are out.
NextViews ==
    \/ CallFourthPushFront
    \/ CallFourthPushBack
    \/ CallFourthPopFront
    \/ CallFourthPopBack
    \/ CallFourthPeekFront
    \/ CallFourthPeekBack
    \/ CallFourthViewDrop

InitViews == Init /\ variant = "fourth"

SpecViews == InitViews /\ [][NextViews]_vars

\* Every list, built by its calls and then dropped.
NextDrop ==
    \/ CallFirstPush
    \/ CallFirstPop
    \/ CallFirstDrop
    \/ CallSecondPush
    \/ CallSecondPop
    \/ CallSecondDrop
    \/ CallThirdPrepend
    \/ CallThirdTail
    \/ CallThirdTeardown
    \/ CallFourthPushFront
    \/ CallFourthPushBack
    \/ CallFourthPopFront
    \/ CallFourthPopBack
    \/ CallFourthDrop
    \/ CallFifthPush
    \/ CallFifthPop
    \/ CallFifthDrop

InitDrop == Init /\ variant \in Variants

SpecDrop == InitDrop /\ [][NextDrop]_vars

(***************************************************************************)
(* The claims                                                              *)
(***************************************************************************)

\* A walk of at most Walk nodes reaches the end of every chain without a
\* cycle, and is one node longer than the heap can hold.
Walk == MaxLen + 1

\* C1: under every interleaving of push and pop the stack of first.rs (and the
\* push/pop of second.rs) holds exactly the elements pushed and not yet popped,
\* most recently pushed first; every pop returned the most recently pushed
\* element not yet popped, or None on an empty stack, which stays empty with
\* nothing left on the heap.
C1_StackLifo ==
    /\ variant = "first" =>
          /\ Chain(first_heap, first_head, Walk) = ref
          /\ DOMAIN first_heap = Range(ChainAddrs(first_heap, first_head, Walk))
          /\ last = "pop" => ret = exp
    /\ variant = "second" =>
          /\ Chain(second_heap, second_head, Walk) = ref
          /\ DOMAIN second_heap = Range(ChainAddrs(second_heap, second_head, Walk))
          /\ last = "pop" => ret = exp

\* C1 witness: a pop has just returned an element and left a non-empty stack.
C1_Witness ==
    /\ variant = "first"
    /\ last = "pop"
    /\ ret = Some(2)
    /\ ref = << 1, 2 >>

\* C2: under every interleaving of push and pop the queue of fifth.rs holds
\* the elements pushed and not yet popped, oldest first; every pop returned
\* the oldest, or None on an empty queue; no push wrote through a freed node.
C2_QueueFifo ==
    variant = "fifth" =>
        /\ Chain(fifth_heap, fifth_head, Walk) = ref
        /\ DOMAIN fifth_heap = Range(ChainAddrs(fifth_heap, fifth_head, Walk))
        /\ last = "pop" => ret = exp
        /\ ~fifth_ub

\* C2 witness: a pop has just returned the oldest element while two younger
\* ones wait behind it.
C2_Witness ==
    /\ variant = "fifth"
    /\ last = "pop"
    /\ ret = Some(1)
    /\ ref = << 2, 1 >>

\* C3: under every order of push_front, push_back, pop_front and pop_back the
\* deque of fourth.rs reads, from head along next, as the reference sequence
\* and, from tail along prev, as its reverse; pop_front returned the first
\* element and pop_back the last, None on an empty deque; no call panicked.
C3_DequeRefines ==
    variant = "fourth" =>
        /\ Chain(fourth_heap, fourth_head, Walk) = ref
        /\ ChainBack(fourth_heap, fourth_tail, Walk) = Reverse(ref)
        /\ DOMAIN fourth_heap = Range(ChainAddrs(fourth_heap, fourth_head, Walk))
        /\ last \in {"pop_front", "pop_back"} => ret = exp
        /\ fourth_panic = "none"

\* C3 witness: pop_back has just returned the last element of a deque that
\* still holds two.
C3_Witness ==
    /\ variant = "fourth"
    /\ last = "pop_back"
    /\ ret = Some(2)
    /\ ref = << 2, 1 >>

\* C4: once as many elements have been popped as were pushed (the reference
\* sequence is empty), the queue of fifth.rs and the deque of fourth.rs are in
\* the state List::new builds: no head, no tail, no node.
C4_RoundTrip ==
    ref = << >> =>
        /\ variant = "fifth" =>
              fifth_head = Null /\ fifth_tail = Null /\ DOMAIN fifth_heap = {}
        /\ variant = "fourth" =>
              fourth_head = Null /\ fourth_tail = Null /\ DOMAIN fourth_heap = {}

\* C4 witness: the pop that empties the queue has just returned.
C4_Witness ==
    /\ variant = "fifth"
    /\ last = "pop"
    /\ ret # None
    /\ ref = << >>

\* C5: while an Iter lives, what it has yielded followed by the values from
\* Iter.next on is the stack's content, head first; each next returned the
\* next element of the reference sequence, None once all were yielded; the
\* stack still reads as before; and an Iter exhausted after an earlier one was
\* exhausted on the same unchanged stack has yielded the same sequence.
C5_IterYields ==
    (variant = "second" /\ second_borrow = "iter") =>
        /\ out \o Chain(second_heap, iter_next, Walk) = ref
        /\ Chain(second_heap, second_head, Walk) = ref
        /\ last = "iter.next" => ret = exp
        /\ (iter_next = Null /\ iter_prev # None) => out = iter_prev[1]

\* C5 witness: a second Iter over the same stack of at least two elements has
\* just returned None.
C5_Witness ==
    /\ variant = "second"
    /\ second_borrow = "iter"
    /\ last = "iter.next"
    /\ ret = None
    /\ iter_prev # None
    /\ Len(out) >= 2

\* C6: while an IntoIter owns the list, what it has yielded followed by what the
\* list still holds is the content the list had when into_iter took it; each
\* next returned what pop returns and freed the node; once everything is
\* yielded the list is empty, and next returns None only then.
C6_IntoIterDrains ==
    (variant = "second" /\ second_borrow = "into_iter") =>
        /\ out \o Chain(second_heap, second_head, Walk) = snap
        /\ DOMAIN second_heap = Range(ChainAddrs(second_heap, second_head, Walk))
        /\ last = "into_iter.next" => ret = exp
        /\ Len(out) = Len(snap) => (second_head = Null /\ DOMAIN second_heap = {})
        /\ (last = "into_iter.next" /\ ret = None) => out = snap

\* C6 witness: an IntoIter that took a list of at least two elements has
\* yielded them all and has just returned None.
C6_Witness ==
    /\ variant = "second"
    /\ second_borrow = "into_iter"
    /\ last = "into_iter.next"
    /\ ret = None
    /\ Len(snap) >= 2

\* C7: while an IterMut lives, the nodes it has handed out followed by the
\* nodes from IterMut.next on are the nodes of the list, head first, each
\* once; IterMut.next is none of the nodes handed out; no node was handed out
\* twice; each next returned the next element, None once all were handed out.
C7_IterMutExclusive ==
    (variant = "second" /\ second_borrow = "iter_mut") =>
        /\ itermut_refs \o ChainAddrs(second_heap, itermut_next, Walk)
              = ChainAddrs(second_heap, second_head, Walk)
        /\ itermut_next \notin Range(itermut_refs)
        /\ \A j, k \in 1..Len(itermut_refs) :
              j # k => itermut_refs[j] # itermut_refs[k]
        /\ last = "iter_mut.next" => ret = exp

\* C7 witness: an IterMut has handed out at least two nodes and has just
\* returned None.
C7_Witness ==
    /\ variant = "second"
    /\ second_borrow = "iter_mut"
    /\ last = "iter_mut.next"
    /\ ret = None
    /\ Len(itermut_refs) >= 2

\* C8: peek and peek_mut return the head value (None on an empty stack) and
\* remove nothing; a write through peek_mut, or through a reference of mutable
\* iteration, changes that one value of the reference sequence and nothing
\* else, and the following peek and pop return it.
C8_PeekFrame ==
    variant = "second" =>
        /\ Chain(second_heap, second_head, Walk) = ref
        /\ last \in {"peek", "peek_mut", "pop"} => ret = exp

\* C8 witness: peek_mut has just returned the head, then 1, of a stack of two,
\* and the write through it made the head 2.
C8_Witness ==
    /\ variant = "second"
    /\ last = "peek_mut"
    /\ ret = Some(1)
    /\ ref = << 2, 1 >>

\* C9: a prepend step on a held List with head l returns a List whose head is
\* a new node holding val whose next is l itself (the receiver's nodes are
\* shared, none is copied or changed); and across every call of prepend, of
\* tail and of prepend chained with tail every List held before is still held
\* with the same head and reads as the same element sequence.
C9_Persistent ==
    [][/\ \A l \in Held, val \in ThirdElems :
             PrependStep(l, val) =>
                \E a \in Addr \ DOMAIN third_heap :
                    /\ third_lists' = third_lists (+) SetToBag({a})
                    /\ DOMAIN third_heap' = DOMAIN third_heap \cup {a}
                    /\ third_heap'[a] = [val |-> val, next |-> l]
                    /\ Chain(third_heap', a, Walk)
                          = << val >> \o Chain(third_heap, l, Walk)
       /\ (variant = "third" /\ last' \in {"prepend", "tail", "prepend.tail"}) =>
             /\ third_lists \sqsubseteq third_lists'
             /\ \A h \in Held :
                   Chain(third_heap', h, Walk) = Chain(third_heap, h, Walk)
             /\ \A x \in DOMAIN third_heap :
                   x \in DOMAIN third_heap' /\ third_heap'[x] = third_heap[x]
      ]_vars

\* C9 witness: a prepend has just returned, and two held Lists with different
\* heads share the node after their heads.
C9_Witness ==
    /\ variant = "third"
    /\ last = "prepend"
    /\ \E a, b \in Held \ {Null} :
          /\ a # b
          /\ third_heap[a].next = third_heap[b].next
          /\ third_heap[a].next # Null

\* C10: a tail step on a held List with head l returns a List whose head is
\* the link after l's head node, so that it reads as l's elements without the
\* first; on an empty List it returns an empty List; and l.prepend(val).tail()
\* returns a List with head l itself, leaving the heap as it was.
C10_Tail ==
    [][\A l \in Held :
          /\ TailStep(l) =>
                \E t \in Addr \cup {Null} :
                    /\ third_lists' = third_lists (+) SetToBag({t})
                    /\ l = Null => t = Null
                    /\ l # Null => t = third_heap[l].next
                    /\ Chain(third_heap', t, Walk)
                          = RefPopFront(Chain(third_heap, l, Walk))
          /\ \A val \in ThirdElems :
                PrependTailStep(l, val) =>
                    /\ third_lists' = third_lists (+) SetToBag({l})
                    /\ third_heap' = third_heap
      ]_vars

\* C10 witness: l.prepend(val).tail() has just returned on a non-empty List,
\* which is now held twice.
C10_Witness ==
    /\ variant = "third"
    /\ last = "prepend.tail"
    /\ \E l \in Held \ {Null} : CopiesIn(l, third_lists) >= 2

\* The calls of fourth.rs that borrow nodes mutably.
Mutators == {"push_front", "push_back", "pop_front", "pop_back"}

\* The nodes the call named op asks borrow_mut() of, in the state it starts in.
Touched(op) ==
    LET head == {fourth_head} \ {Null}
        tail == {fourth_tail} \ {Null}
    IN  IF op = "push_front" THEN head
        ELSE IF op = "push_back" THEN tail
        ELSE IF op = "pop_front"
             THEN head \cup ({fourth_heap[n].next : n \in head} \ {Null})
        ELSE IF op = "pop_back"
             THEN tail \cup ({fourth_heap[n].prev : n \in tail} \ {Null})
        ELSE {}

\* C11: peek_front returns the first element and peek_back the last (None on an
\* empty deque) and each read-borrows the node it looked at, the same node
\* when the deque holds one element; taking a view and dropping one change no
\* node, List.head or List.tail; dropping a view gives back one read borrow;
\* and a push or pop panics on a borrow only if a node it borrows is viewed,
\* so that it succeeds once the views of its nodes are dropped.
C11_Peek ==
    [][(variant = "fourth" /\ fourth_panic = "none") =>
          /\ last' = "peek_front" =>
                /\ ret' = exp'
                /\ fourth_views' = IF fourth_head = Null THEN fourth_views
                                   ELSE fourth_views (+) SetToBag({fourth_head})
                /\ UNCHANGED << fourth_heap, fourth_head, fourth_tail >>
          /\ last' = "peek_back" =>
                /\ ret' = exp'
                /\ fourth_views' = IF fourth_tail = Null THEN fourth_views
                                   ELSE fourth_views (+) SetToBag({fourth_tail})
                /\ Len(ref) = 1 => fourth_tail = fourth_head
                /\ UNCHANGED << fourth_heap, fourth_head, fourth_tail >>
          /\ last' = "view.drop" =>
                /\ \E a \in BagToSet(fourth_views) :
                      fourth_views' = fourth_views (-) SetToBag({a})
                /\ BagCardinality(fourth_views')
                      = BagCardinality(fourth_views) - 1
                /\ UNCHANGED << fourth_heap, fourth_head, fourth_tail >>
          /\ (last' \in Mutators /\ fourth_panic' = "already borrowed") =>
                \E n \in Touched(last') : Viewed(n)
      ]_vars

\* C11 witness: peek_back has just returned the last element of a deque of two
\* while the view that peek_front gave of the first is still out.
C11_Witness ==
    /\ variant = "fourth"
    /\ last = "peek_back"
    /\ ret = Some(1)
    /\ ref = << 2, 1 >>
    /\ CopiesIn(fourth_head, fourth_views) = 1
    /\ CopiesIn(fourth_tail, fourth_views) = 1

\* C12: a push or pop that asks borrow_mut() of a node of which a view is out
\* panics, and no call changes or frees a node of which a view is out.
C12_FailFast ==
    [][(variant = "fourth" /\ fourth_panic = "none" /\ last' \in Mutators) =>
          /\ (\E n \in Touched(last') : Viewed(n)) =>
                fourth_panic' = "already borrowed"
          /\ \A n \in DOMAIN fourth_heap :
                Viewed(n) =>
                    /\ n \in DOMAIN fourth_heap'
                    /\ fourth_heap'[n] = fourth_heap[n]
      ]_vars

\* C12 witness: pop_front has panicked on a deque of two whose second node,
\* the new head, is viewed while the first is not.
C12_Witness ==
    /\ variant = "fourth"
    /\ last = "pop_front"
    /\ fourth_panic = "already borrowed"
    /\ fourth_head = Null
    /\ \E n \in DOMAIN fourth_heap :
          /\ ~Viewed(n)
          /\ fourth_heap[n].next = Null
          /\ \E m \in DOMAIN fourth_heap : Viewed(m) /\ fourth_heap[m].prev = n

\* C13: in every state of fifth.rs List.tail is null exactly when the queue is
\* empty; otherwise it points at a live node, the last of the chain from
\* List.head, whose next is None; no push wrote through a freed node.
C13_TailPosition ==
    variant = "fifth" =>
        /\ fifth_tail = Null <=> fifth_head = Null
        /\ fifth_tail # Null =>
              /\ fifth_tail \in DOMAIN fifth_heap
              /\ fifth_heap[fifth_tail].next = Null
              /\ LET chain == ChainAddrs(fifth_heap, fifth_head, Walk)
                 IN  chain # << >> /\ chain[Len(chain)] = fifth_tail
        /\ ~fifth_ub

\* C13 witness: a pop has just returned and left two elements, and List.tail
\* points at the second of them.
C13_Witness ==
    /\ variant = "fifth"
    /\ last = "pop"
    /\ ret # None
    /\ Len(ref) = 2
    /\ fifth_tail # fifth_head
    /\ fifth_heap[fifth_head].next = fifth_tail

\* C14: in every state of fourth.rs the next link of a node leads to a live node
\* whose prev link leads back, and conversely; the head node has no prev and
\* the tail node no next; List.head is None exactly when List.tail is.
C14_Links ==
    variant = "fourth" =>
        /\ \A n \in DOMAIN fourth_heap :
              /\ fourth_heap[n].next # Null =>
                    /\ fourth_heap[n].next \in DOMAIN fourth_heap
                    /\ fourth_heap[fourth_heap[n].next].prev = n
              /\ fourth_heap[n].prev # Null =>
                    /\ fourth_heap[n].prev \in DOMAIN fourth_heap
                    /\ fourth_heap[fourth_heap[n].prev].next = n
        /\ fourth_head # Null =>
              fourth_head \in DOMAIN fourth_heap /\ fourth_heap[fourth_head].prev = Null
        /\ fourth_tail # Null =>
              fourth_tail \in DOMAIN fourth_heap /\ fourth_heap[fourth_tail].next = Null
        /\ fourth_head = Null <=> fourth_tail = Null

\* C14 witness: push_front has just put a third node before two others.
C14_Witness ==
    /\ variant = "fourth"
    /\ last = "push_front"
    /\ Len(ref) = 3
    /\ fourth_heap[fourth_heap[fourth_head].next].next = fourth_tail

\* C15: in every state reached by the pushes and pops of fourth.rs every node
\* has exactly two owning handles (List.head or its predecessor's next, and
\* List.tail or its successor's prev), and Rc::try_unwrap in pop_front and
\* pop_back, which finds both released, never fails.
C15_Reclaim ==
    variant = "fourth" =>
        /\ fourth_panic # "unwrap on None"
        /\ \A a \in DOMAIN fourth_heap :
              RcStrong(fourth_heap, fourth_head, fourth_tail, a) = 2
        /\ (last \in {"pop_front", "pop_back"} /\ exp # None) => ret # None

\* C15 witness: pop_front has just reclaimed the only node of the deque.
C15_Witness ==
    /\ variant = "fourth"
    /\ last = "pop_front"
    /\ ret # None
    /\ ref = << >>
    /\ DOMAIN fourth_heap = {}

\* C16: a push or pop called while no view is out does not panic on a borrow;
\* in every state no node is its own next or prev, so that the end node
\* pop_front and pop_back hold mutably borrowed and the new end node they then
\* borrow are two nodes.
C16_NoSelfConflict ==
    [][(variant = "fourth" /\ fourth_panic = "none") =>
          /\ (fourth_views = EmptyBag /\ last' \in Mutators) =>
                fourth_panic' # "already borrowed"
          /\ \A n \in DOMAIN fourth_heap :
                fourth_heap[n].next # n /\ fourth_heap[n].prev # n
      ]_vars

\* C16 witness: after the views were dropped, pop_back has returned an element
\* and made another node the tail.
C16_Witness ==
    /\ variant = "fourth"
    /\ last = "pop_back"
    /\ ret # None
    /\ fourth_panic = "none"
    /\ fourth_views = EmptyBag
    /\ fourth_tail # Null

\* C17: every turn of the drop of a fourth.rs List either takes exactly one
\* node off the front and frees it, without a panic, or finds the list empty
\* and ends the drop; the number of nodes falls with every turn, so the loop
\* ends, and at its end no node is left, head and tail are None, and no node
\* was freed inside the drop of another.
C17_Teardown ==
    [][(variant = "fourth" /\ last' = "drop") =>
          /\ fourth_panic' = "none"
          /\ drop_max' <= 1
          /\ IF ret' # None
             THEN /\ teardown' = "dropping"
                  /\ fourth_head \in DOMAIN fourth_heap
                  /\ DOMAIN fourth_heap' = DOMAIN fourth_heap \ {fourth_head}
             ELSE /\ teardown' = "done"
                  /\ fourth_heap' = << >>
                  /\ fourth_head' = Null
                  /\ fourth_tail' = Null]_vars

\* C17 witness: the drop of a List that held two or more elements, its nodes
\* referring to one another through next and prev, has ended with no node left.
C17_Witness ==
    /\ variant = "fourth"
    /\ last = "drop"
    /\ teardown = "done"
    /\ Len(ref) >= 2
    /\ drop_max = 1
    /\ fourth_heap = << >>

\* C18 as stated: in every variant the nodes of a dropped List are destroyed
\* one at a time, none inside the destruction of another: the nesting of node
\* destructors never exceeds one, whatever the length of the chain.
C18_IterativeTeardown ==
    drop_max <= 1

\* The Lists among the heads in S, counted as often as the caller holds them,
\* whose chain passes through the node at a.
RECURSIVE Passing(_, _)
Passing(a, S) ==
    IF S = {} THEN 0
    ELSE LET l == CHOOSE x \in S : TRUE IN
         (IF a \in Range(ChainAddrs(third_heap, l, Walk))
          THEN CopiesIn(l, third_lists) ELSE 0)
         + Passing(a, S \ {l})

\* C19 as stated: the strong count of every node is the number of Lists held
\* whose chain passes through it.
C19_Original ==
    variant = "third" =>
        \A a \in DOMAIN third_heap : third_rc[a] = Passing(a, Held)

\* C19 amended: every live node has a strong count, which is the number of
\* Lists held whose head it is plus the number of nodes whose next it is; it
\* is at least one and at most the number of Lists held whose chain passes
\* through the node.
C19_RefCount ==
    variant = "third" =>
        /\ DOMAIN third_rc = DOMAIN third_heap
        /\ \A a \in DOMAIN third_heap :
              /\ third_rc[a] = ThirdStrong(third_heap, third_lists, a)
              /\ third_rc[a] >= 1
              /\ third_rc[a] <= Passing(a, Held)

\* C19 witness: tail has just returned, and a node with strong count one lies
\* on the chains of two Lists.
C19_Witness ==
    /\ variant = "third"
    /\ last = "tail"
    /\ \E a \in DOMAIN third_heap : third_rc[a] = 1 /\ Passing(a, Held) = 2

\* C20: in every state the live nodes are the nodes on the chains of the Lists
\* held: the head of a List and the next of a live node are live nodes (none
\* was freed under a handle), and every live node is on the chain of some
\* List held (none outlived its last handle).
C20_Lifetime ==
    variant = "third" =>
        /\ \A l \in Held : l # Null => l \in DOMAIN third_heap
        /\ \A n \in DOMAIN third_heap :
              third_heap[n].next # Null => third_heap[n].next \in DOMAIN third_heap
        /\ \A n \in DOMAIN third_heap :
              \E l \in Held : n \in Range(ChainAddrs(third_heap, l, Walk))

\* C20 witness: the drop of a List has just freed a node while a node
\* allocated after it, on another List, lives on.
C20_Witness ==
    /\ variant = "third"
    /\ last = "drop"
    /\ \E a \in DOMAIN third_heap :
          \E b \in Addr : b < a /\ b \notin DOMAIN third_heap

====
